---- MODULE Spec2Model ----
(***************************************************************************)
(* Model of rwool/red: the activity generator.                             *)
(*                                                                         *)
(*   - RunActivities and LocalhostTCPConnect (the main program), with the  *)
(*     server goroutine started by g.Go as a second process;               *)
(*   - the ActivityGenerator methods of red.go (RunProcess, CreateFile,    *)
(*     ModifyFile, DeleteFile, ConnectAndTransmit), called one at a time   *)
(*     by a caller such as the tests.                                      *)
(*                                                                         *)
(* Every OS call is a nondeterministic choice between the outcomes the OS  *)
(* can produce; oc records the outcome of each call of the main program.   *)
(***************************************************************************)
EXTENDS Integers, Sequences, FiniteSets, TLC

(* ------------------------------ bounds -------------------------------- *)
MaxLen == 3      \* longest payload handed to LocalhostTCPConnect on its own
MaxChunk == 2    \* most bytes moved by one Write or one Read
BufCap == 2      \* bytes the connection holds between client and server
MaxCalls == 2    \* ActivityGenerator calls made by one caller

Bytes == {1, 2}
Hello == <<104, 101, 108, 108, 111>>      \* strings.NewReader("hello")
Paths == {"a", "b"}

Min(a, b) == IF a < b THEN a ELSE b

RECURSIVE SeqsUpTo(_)
SeqsUpTo(n) ==
    IF n = 0 THEN {<<>>}
    ELSE LET S == SeqsUpTo(n - 1)
         IN  S \cup {Append(s, b) : s \in {t \in S : Len(t) = n - 1}, b \in Bytes}

Payloads == SeqsUpTo(MaxLen)

(* ------------------------------ errors -------------------------------- *)
\* An error is its chain of messages, outermost first; nil is the empty chain.
Nil == <<>>
OsErr(what) == <<what>>
\* fmt.Errorf("msg: %w", err)
Wrap(msg, err) == <<msg>> \o err
\* errors.New(msg)
New(msg) == <<msg>>
\* errors.Is(err, target)
Is(err, target) == \E i \in 1..Len(err) : err[i] = target

(* ------------------------------ logging ------------------------------- *)
WithFields_DropsEntry(l, f) == f

\* logrus.Entry.WithFields: the entry's data, then the new fields over it.
WithFields(l, f) == f @@ l
WithField(l, k, v) == WithFields(l, k :> v)
WithError(l, err) == WithField(l, "error", err)

\* The fields common to all activities (RunActivities / NewActivityGenerator).
BaseFields ==
    ("username" :> "user") @@ ("process name" :> "red") @@
    ("process command line" :> "red -x") @@ ("process ID" :> "4242")

Rec(l, lvl, msg) == [msg |-> msg, level |-> lvl, data |-> l]

\* errLog: the records it emits, error level with the error attached when
\* e != nil, info level otherwise.
errLog(l, err, msg) ==
    IF err # Nil THEN <<Rec(WithError(l, err), "error", msg)>>
    ELSE <<Rec(l, "info", msg)>>

Ops == {"userCurrent", "cmdStart", "cmdWait", "absDir", "create", "modify",
        "close", "delete", "listen", "setDeadline", "dial", "cwrite", "cclose",
        "lclose", "accept", "setReadDeadline", "sread", "sinkWrite"}

VARIABLES
    mode,       \* which entry point runs: "RA", "TCP" or "AG"
    dlOk,       \* ctx carries a deadline
    expired,    \* that deadline has elapsed
    payload,    \* the bytes of r
    sinkKind,   \* "reliable" (io.Discard, a buffer) or "faulty" (Write may fail)
    log,        \* the records emitted, in order
    oc,         \* outcome of each OS call of the main program: none / ok / err
    \* RunActivities
    rpc,        \* position in RunActivities
    ret,        \* what RunActivities returned
    e,          \* named result of the file closure
    file,       \* the created file: exists, open, size
    \* LocalhostTCPConnect, caller's flow
    tpc,        \* position in LocalhostTCPConnect
    tret,       \* what it returned: sent, err
    rem,        \* payload not yet read from r
    sent,       \* bytes io.Copy(conn, r) has written
    netbuf,     \* bytes written by the client and not yet read by the server
    listener,   \* none / open / closed
    cconn,      \* dialed connection: none / open / closed
    sconn,      \* accepted connection: none / open / closed
    backlog,    \* a completed connection waits to be accepted
    \* the goroutine of g.Go
    spc,        \* idle / accept / setdl / copy / done
    serverErr,  \* the error the goroutine returned to the errgroup
    sink,       \* bytes written to w
    \* ActivityGenerator
    fs,         \* path -> whether it exists, and its size
    agOpen,     \* paths with an open handle held by the caller
    agCalls,    \* calls made so far
    agLast      \* the last call: name, arguments, result, first record it logged

vars == <<mode, dlOk, expired, payload, sinkKind, log, oc, rpc, ret, e, file,
          tpc, tret, rem, sent, netbuf, listener, cconn, sconn, backlog,
          spc, serverErr, sink, fs, agOpen, agCalls, agLast>>

raVars == <<rpc, ret, e, file>>
tcpVars == <<tpc, tret, rem, sent, netbuf, listener, cconn, sconn, backlog>>
srvVars == <<spc, serverErr, sink>>
agVars == <<fs, agOpen, agCalls, agLast>>
envVars == <<mode, dlOk, payload, sinkKind>>

Outcome(op, ok) == [oc EXCEPT ![op] = IF ok THEN "ok" ELSE "err"]
\* ctx.Done() is closed: the deadline has elapsed.
CtxDone == dlOk /\ expired

\* The record of an ActivityGenerator call: its name, its result, the length
\* of the log when it was made, and what it did.
NoCall == [op |-> "none", err |-> Nil, mark |-> 0, started |-> FALSE,
           wait |-> "none", path |-> "none", conn |-> "none", sent |-> 0]

Init ==
    /\ mode \in {"RA", "TCP", "AG"}
    /\ dlOk \in BOOLEAN
    /\ expired = FALSE
    /\ payload \in (IF mode = "TCP" THEN Payloads ELSE {Hello})
    /\ sinkKind \in (IF mode = "TCP" THEN {"reliable", "faulty"} ELSE {"reliable"})
    /\ log = <<>>
    /\ oc = [op \in Ops |-> "none"]
    /\ rpc = IF mode = "RA" THEN "start" ELSE "idle"
    /\ ret = Nil
    /\ e = Nil
    /\ file = [exists |-> FALSE, open |-> FALSE, size |-> 0]
    /\ tpc = IF mode = "TCP" THEN "listen" ELSE "idle"
    /\ tret = [sent |-> 0, err |-> Nil]
    /\ rem = payload
    /\ sent = 0
    /\ netbuf = <<>>
    /\ listener = "none"
    /\ cconn = "none"
    /\ sconn = "none"
    /\ backlog = FALSE
    /\ spc = "idle"
    /\ serverErr = Nil
    /\ sink = <<>>
    /\ fs \in (IF mode = "AG" THEN [Paths -> {[exists |-> b, size |-> 0] : b \in BOOLEAN}]
               ELSE {[p \in Paths |-> [exists |-> FALSE, size |-> 0]]})
    /\ agOpen = {}
    /\ agCalls = 0
    /\ agLast = NoCall

\* The deadline of ctx elapses.
CtxExpire ==
    /\ dlOk /\ ~expired
    /\ \/ mode = "RA" /\ rpc # "returned"
       \/ mode = "TCP" /\ (tpc # "returned" \/ spc \notin {"idle", "done"})
       \/ mode = "AG" /\ agCalls < MaxCalls
    /\ expired' = TRUE
    /\ UNCHANGED <<envVars, log, oc, raVars, tcpVars, srvVars, agVars>>

(* --------------------------- RunActivities ---------------------------- *)
\* The file's path and the entry the file events are logged with.
FilePath == "/tmp/1.txt"
fLog == WithFields(BaseFields, ("file path" :> FilePath) @@ ("file activity" :> "create"))

\* exec.Cmd.Wait: nil only when the process exited with status 0.
WaitStates == {"exit0", "exitNonZero", "killed"}
WaitErr(st) == IF st = "exit0" THEN Nil ELSE OsErr(st)

RAReturn(err) == rpc' = "returned" /\ ret' = err

\* user.Current()
RA_UserCurrent ==
    /\ mode = "RA" /\ rpc = "start"
    /\ \E ok \in BOOLEAN :
        /\ oc' = Outcome("userCurrent", ok)
        /\ IF ok THEN rpc' = "cmdStart" /\ ret' = ret
           ELSE RAReturn(Wrap("unable to get user information", OsErr("user")))
    /\ UNCHANGED <<envVars, expired, log, e, file, tcpVars, srvVars, agVars>>

\* cmd.Start() and its "process start" event.
RA_CmdStart ==
    /\ mode = "RA" /\ rpc = "cmdStart"
    /\ \E ok \in BOOLEAN :
        /\ CtxDone => ~ok
        /\ LET err == IF ok THEN Nil ELSE OsErr(IF CtxDone THEN "deadline exceeded" ELSE "start")
           IN  /\ oc' = Outcome("cmdStart", ok)
               /\ log' = log \o errLog(BaseFields, err, "process start")
               /\ IF err # Nil THEN RAReturn(Wrap("error starting the command", err))
                  ELSE rpc' = "cmdWait" /\ ret' = ret
    /\ UNCHANGED <<envVars, expired, e, file, tcpVars, srvVars, agVars>>

RA_CmdWait_IgnoreErr ==
    /\ mode = "RA" /\ rpc = "cmdWait"
    /\ \E st \in WaitStates :
        /\ st = "killed" => CtxDone
        /\ oc' = Outcome("cmdWait", WaitErr(st) = Nil)
        /\ rpc' = "absDir" /\ ret' = ret
    /\ UNCHANGED <<envVars, expired, log, e, file, tcpVars, srvVars, agVars>>

\* cmd.Wait()
RA_CmdWait ==
    /\ mode = "RA" /\ rpc = "cmdWait"
    /\ \E st \in WaitStates :
        /\ st = "killed" => CtxDone
        /\ LET err == WaitErr(st)
           IN  /\ oc' = Outcome("cmdWait", err = Nil)
               /\ IF err # Nil THEN RAReturn(Wrap("command error", err))
                  ELSE rpc' = "absDir" /\ ret' = ret
    /\ UNCHANGED <<envVars, expired, log, e, file, tcpVars, srvVars, agVars>>

\* filepath.Abs(directory)
RA_AbsDir ==
    /\ mode = "RA" /\ rpc = "absDir"
    /\ \E ok \in BOOLEAN :
        /\ oc' = Outcome("absDir", ok)
        /\ IF ok THEN rpc' = "create" /\ ret' = ret
           ELSE RAReturn(Wrap("unable to get absolute path for directory", OsErr("getwd")))
    /\ UNCHANGED <<envVars, expired, log, e, file, tcpVars, srvVars, agVars>>

RA_Create_CleanupOnFailure ==
    /\ mode = "RA" /\ rpc = "create"
    /\ \E ok \in BOOLEAN :
        LET err == IF ok THEN Nil ELSE OsErr("create")
        IN  /\ oc' = Outcome("create", ok)
            /\ log' = log \o errLog(fLog, err, "create file")
            /\ ret' = ret
            /\ IF err # Nil
               THEN /\ rpc' = "delete" /\ file' = file
                    /\ e' = Wrap("unable to create file", err)
               ELSE /\ rpc' = "modify" /\ e' = e
                    /\ file' = [exists |-> TRUE, open |-> TRUE, size |-> 0]
    /\ UNCHANGED <<envVars, expired, tcpVars, srvVars, agVars>>

\* os.Create(path) and its "create file" event.
RA_Create ==
    /\ mode = "RA" /\ rpc = "create"
    /\ \E ok \in BOOLEAN :
        LET err == IF ok THEN Nil ELSE OsErr("create")
        IN  /\ oc' = Outcome("create", ok)
            /\ log' = log \o errLog(fLog, err, "create file")
            /\ IF err # Nil
               THEN RAReturn(Wrap("unable to create file", err)) /\ file' = file
               ELSE /\ rpc' = "modify" /\ ret' = ret
                    /\ file' = [exists |-> TRUE, open |-> TRUE, size |-> 0]
    /\ UNCHANGED <<envVars, expired, e, tcpVars, srvVars, agVars>>

AppendLen == 11      \* len("file append")

RA_Modify_SkipCleanup ==
    /\ mode = "RA" /\ rpc = "modify"
    /\ \E ok \in BOOLEAN :
        LET err == IF ok THEN Nil ELSE OsErr("write")
        IN  /\ oc' = Outcome("modify", ok)
            /\ log' = log \o errLog(WithField(fLog, "file activity", "modify"), err, "modify file")
            /\ file' = [file EXCEPT !.size = IF ok THEN @ + AppendLen ELSE @]
            /\ e' = IF err # Nil THEN Wrap("unable to write to string", err) ELSE Nil
            /\ IF err # Nil THEN RAReturn(e') ELSE rpc' = "close" /\ ret' = ret
    /\ UNCHANGED <<envVars, expired, tcpVars, srvVars, agVars>>

\* The body of the closure: f.WriteString("file append"), its "modify file"
\* event, and the closure's result e; the deferred function runs next.
RA_Modify ==
    /\ mode = "RA" /\ rpc = "modify"
    /\ \E ok \in BOOLEAN :
        LET err == IF ok THEN Nil ELSE OsErr("write")
        IN  /\ oc' = Outcome("modify", ok)
            /\ log' = log \o errLog(WithField(fLog, "file activity", "modify"), err, "modify file")
            /\ file' = [file EXCEPT !.size = IF ok THEN @ + AppendLen ELSE @]
            /\ e' = IF err # Nil THEN Wrap("unable to write to string", err) ELSE Nil
    /\ rpc' = "close"
    /\ UNCHANGED <<envVars, expired, ret, tcpVars, srvVars, agVars>>

RA_Close_LogsAlways ==
    /\ mode = "RA" /\ rpc = "close"
    /\ \E ok \in BOOLEAN :
        /\ oc' = Outcome("close", ok)
        /\ log' = log \o errLog(BaseFields, IF ok THEN Nil ELSE OsErr("close"), "close file")
    /\ file' = [file EXCEPT !.open = FALSE]
    /\ rpc' = "delete"
    /\ UNCHANGED <<envVars, expired, ret, e, tcpVars, srvVars, agVars>>

RA_Close_LeavesOpen ==
    /\ mode = "RA" /\ rpc = "close"
    /\ \E ok \in BOOLEAN :
        /\ oc' = Outcome("close", ok)
        /\ log' = IF ok THEN log
                  ELSE Append(log, Rec(WithError(BaseFields, OsErr("close")), "error", "close file"))
    /\ file' = file
    /\ rpc' = "delete"
    /\ UNCHANGED <<envVars, expired, ret, e, tcpVars, srvVars, agVars>>

\* Deferred: f.Close(); a failure is only logged.
RA_Close ==
    /\ mode = "RA" /\ rpc = "close"
    /\ \E ok \in BOOLEAN :
        /\ oc' = Outcome("close", ok)
        /\ log' = IF ok THEN log
                  ELSE Append(log, Rec(WithError(BaseFields, OsErr("close")), "error", "close file"))
    /\ file' = [file EXCEPT !.open = FALSE]
    /\ rpc' = "delete"
    /\ UNCHANGED <<envVars, expired, ret, e, tcpVars, srvVars, agVars>>

RA_Delete_LastErrorWins ==
    /\ mode = "RA" /\ rpc = "delete"
    /\ \E ok \in BOOLEAN :
        LET err == IF ok THEN Nil ELSE OsErr("remove")
            res == IF err # Nil THEN Wrap("unable to delete file", err) ELSE e
        IN  /\ oc' = Outcome("delete", ok)
            /\ log' = log \o errLog(WithField(fLog, "file activity", "delete"), err, "delete file")
            /\ file' = [file EXCEPT !.exists = IF ok THEN FALSE ELSE @]
            /\ e' = res
            /\ IF res # Nil THEN RAReturn(res) /\ tpc' = tpc
               ELSE rpc' = "transmit" /\ ret' = ret /\ tpc' = "listen"
    /\ UNCHANGED <<envVars, expired, tret, rem, sent, netbuf, listener, cconn,
                   sconn, backlog, srvVars, agVars>>

\* Deferred: os.Remove(f.Name()), its "delete file" event, and the closure's
\* result; then `if err != nil { return err }` or the call of
\* LocalhostTCPConnect.
RA_Delete ==
    /\ mode = "RA" /\ rpc = "delete"
    /\ \E ok \in BOOLEAN :
        LET err == IF ok THEN Nil ELSE OsErr("remove")
            res == IF err # Nil /\ e = Nil THEN Wrap("unable to delete file", err) ELSE e
        IN  /\ oc' = Outcome("delete", ok)
            /\ log' = log \o errLog(WithField(fLog, "file activity", "delete"), err, "delete file")
            /\ file' = [file EXCEPT !.exists = IF ok THEN FALSE ELSE @]
            /\ e' = res
            /\ IF res # Nil THEN RAReturn(res) /\ tpc' = tpc
               ELSE rpc' = "transmit" /\ ret' = ret /\ tpc' = "listen"
    /\ UNCHANGED <<envVars, expired, tret, rem, sent, netbuf, listener, cconn,
                   sconn, backlog, srvVars, agVars>>

\* LocalhostTCPConnect has returned to RunActivities.
RA_TransmitReturn ==
    /\ mode = "RA" /\ rpc = "transmit" /\ tpc = "returned"
    /\ RAReturn(IF tret.err # Nil
                THEN Wrap("unable to transmit data over a network connection", tret.err)
                ELSE Nil)
    /\ UNCHANGED <<envVars, expired, log, oc, e, file, tcpVars, srvVars, agVars>>

(* ------------------------- LocalhostTCPConnect ------------------------ *)
\* The entry the caller hands in: RunActivities' log, or the test's.
TcpEntry == IF mode = "RA" THEN BaseFields ELSE ("test" :> "TestLocalhostTCPConnect")

\* log after `log = log.WithFields(...)`: addresses, protocol, bytes sent.
TxEntry(n) ==
    WithFields(TcpEntry,
               ("destination address" :> "127.0.0.1:40000") @@
               ("source address" :> "127.0.0.1:50000") @@
               ("protocol" :> "tcp") @@ ("data sent (bytes)" :> n))

TcpVal(n, err) == [sent |-> n, err |-> err]

\* net.ListenTCP on 127.0.0.1:0; the deferred l.Close() is registered on success.
T_Listen ==
    /\ tpc = "listen"
    /\ \E ok \in BOOLEAN :
        /\ oc' = Outcome("listen", ok)
        /\ IF ok THEN listener' = "open" /\ tpc' = "setDeadline" /\ tret' = tret
           ELSE /\ listener' = listener /\ tpc' = "returned"
                /\ tret' = TcpVal(0, Wrap("unable to create TCP listener", OsErr("listen")))
    /\ UNCHANGED <<envVars, expired, log, raVars, rem, sent, netbuf, cconn, sconn,
                   backlog, srvVars, agVars>>

\* l.SetDeadline(dl) when ctx has a deadline, then g.Go starts the goroutine.
T_SetDeadline ==
    /\ tpc = "setDeadline"
    /\ \E ok \in BOOLEAN :
        /\ ~dlOk => ok
        /\ oc' = IF dlOk THEN Outcome("setDeadline", ok) ELSE oc
        /\ IF ok THEN tpc' = "dial" /\ spc' = "accept" /\ tret' = tret
           ELSE /\ tpc' = "defer" /\ spc' = spc
                /\ tret' = TcpVal(0, Wrap("unable to set listener deadline", OsErr("setdeadline")))
    /\ UNCHANGED <<envVars, expired, log, raVars, rem, sent, netbuf, listener, cconn,
                   sconn, backlog, serverErr, sink, agVars>>

\* d.DialContext(ctx, "tcp", l.Addr().String())
T_Dial ==
    /\ tpc = "dial"
    /\ \E ok \in BOOLEAN :
        /\ CtxDone => ~ok
        /\ oc' = Outcome("dial", ok)
        /\ IF ok THEN cconn' = "open" /\ backlog' = TRUE /\ tpc' = "copy" /\ tret' = tret
           ELSE /\ cconn' = cconn /\ backlog' = backlog /\ tpc' = "defer"
                /\ tret' = TcpVal(0, Wrap("unable to connect to loopback TCP listener",
                                          OsErr(IF CtxDone THEN "deadline exceeded" ELSE "dial")))
    /\ UNCHANGED <<envVars, expired, log, raVars, rem, sent, netbuf, listener, sconn,
                   srvVars, agVars>>

\* conn.Write of io.Copy(conn, r) waits: the buffers of the connection are
\* full and payload is left. The client connection has no write deadline and
\* nothing closes the accepted connection, so only a reader ends the wait.
WriteBlocked == rem # <<>> /\ Len(netbuf) = BufCap

\* One round of io.Copy(conn, r): a chunk of r goes into the connection, or
\* the Read of r or the Write fails, the "data transmission" event is logged
\* at error level and the call returns (the connection is left as it is).
T_ClientWrite ==
    /\ tpc = "copy"
    /\ \/ \E k \in 1..Min(MaxChunk, Len(rem)) :
            /\ Len(netbuf) + k <= BufCap
            /\ netbuf' = netbuf \o SubSeq(rem, 1, k)
            /\ rem' = SubSeq(rem, k + 1, Len(rem))
            /\ sent' = sent + k
            /\ UNCHANGED <<log, oc, tpc, tret>>
       \/ LET err == OsErr("write")
          IN  /\ ~WriteBlocked
              /\ oc' = Outcome("cwrite", FALSE)
              /\ log' = log \o errLog(TxEntry(sent), err, "data transmission")
              /\ tret' = TcpVal(sent, Wrap("error copying data to client connection", err))
              /\ tpc' = "defer"
              /\ UNCHANGED <<netbuf, rem, sent>>
    /\ UNCHANGED <<envVars, expired, raVars, listener, cconn, sconn, backlog,
                   srvVars, agVars>>

\* io.Copy(conn, r) reaches the end of r: the "data transmission" event.
T_CopyDone ==
    /\ tpc = "copy" /\ rem = <<>>
    /\ oc' = Outcome("cwrite", TRUE)
    /\ log' = log \o errLog(TxEntry(sent), Nil, "data transmission")
    /\ tpc' = "close"
    /\ UNCHANGED <<envVars, expired, raVars, tret, rem, sent, netbuf, listener, cconn,
                   sconn, backlog, srvVars, agVars>>

\* conn.Close()
T_ClientClose ==
    /\ tpc = "close"
    /\ \E ok \in BOOLEAN :
        /\ oc' = Outcome("cclose", ok)
        /\ IF ok THEN tpc' = "wait" /\ tret' = tret
           ELSE /\ tpc' = "defer"
                /\ tret' = TcpVal(sent, Wrap("error closing client connection", OsErr("close")))
    /\ cconn' = "closed"
    /\ UNCHANGED <<envVars, expired, log, raVars, rem, sent, netbuf, listener, sconn,
                   backlog, srvVars, agVars>>

T_Wait_NoJoin ==
    /\ tpc = "wait"
    /\ tret' = TcpVal(sent, IF serverErr # Nil
                            THEN Wrap("server listener error", serverErr) ELSE Nil)
    /\ tpc' = "defer"
    /\ UNCHANGED <<envVars, expired, log, oc, raVars, rem, sent, netbuf, listener, cconn,
                   sconn, backlog, srvVars, agVars>>

\* g.Wait(): blocks until the goroutine has returned, then its error.
T_Wait ==
    /\ tpc = "wait" /\ spc = "done"
    /\ tret' = TcpVal(sent, IF serverErr # Nil
                            THEN Wrap("server listener error", serverErr) ELSE Nil)
    /\ tpc' = "defer"
    /\ UNCHANGED <<envVars, expired, log, oc, raVars, rem, sent, netbuf, listener, cconn,
                   sconn, backlog, srvVars, agVars>>

\* The deferred l.Close() runs and the call returns. The closure reads the
\* variable log, which holds the transmission fields once io.Copy returned.
T_Return ==
    /\ tpc = "defer"
    /\ \E ok \in BOOLEAN :
        /\ oc' = Outcome("lclose", ok)
        /\ log' = IF ok THEN log
                  ELSE Append(log, Rec(WithError(IF oc["cwrite"] # "none"
                                                 THEN TxEntry(sent) ELSE TcpEntry,
                                                 OsErr("close")),
                                       "error", "close TCP listener"))
    /\ listener' = "closed"
    /\ tpc' = "returned"
    /\ UNCHANGED <<envVars, expired, raVars, tret, rem, sent, netbuf, cconn, sconn,
                   backlog, srvVars, agVars>>

(* ------------------------ the goroutine of g.Go ----------------------- *)
SrvReturn(err) == spc' = "done" /\ serverErr' = err

\* l.Accept(): a waiting connection is accepted; it fails when the listener
\* is closed, when its deadline has passed, or on the arriving connection.
S_Accept ==
    /\ spc = "accept"
    /\ \/ /\ listener = "open" /\ backlog /\ ~CtxDone
          /\ oc' = Outcome("accept", TRUE)
          /\ sconn' = "open" /\ backlog' = FALSE
          /\ spc' = "setdl" /\ serverErr' = serverErr
       \/ /\ listener = "closed" \/ CtxDone \/ backlog
          /\ oc' = Outcome("accept", FALSE)
          /\ SrvReturn(Wrap("error accepting connection",
                            OsErr(IF listener = "closed" THEN "closed"
                                  ELSE IF CtxDone THEN "timeout" ELSE "accept")))
          /\ UNCHANGED <<sconn, backlog>>
    /\ UNCHANGED <<envVars, expired, log, raVars, tpc, tret, rem, sent, netbuf,
                   listener, cconn, sink, agVars>>

\* conn.SetReadDeadline(dl) when ctx has a deadline.
S_SetReadDeadline ==
    /\ spc = "setdl"
    /\ \E ok \in BOOLEAN :
        /\ ~dlOk => ok
        /\ oc' = IF dlOk THEN Outcome("setReadDeadline", ok) ELSE oc
        /\ IF ok THEN spc' = "copy" /\ serverErr' = serverErr
           ELSE SrvReturn(Wrap("unable to set server connection deadline", OsErr("setdeadline")))
    /\ UNCHANGED <<envVars, expired, log, raVars, tcpVars, sink, agVars>>

\* One round of io.Copy(w, conn): a chunk is read from the connection and
\* written to w; a Write of a faulty w may take only part of it and fail.
S_Copy ==
    /\ spc = "copy" /\ ~CtxDone /\ netbuf # <<>>
    /\ \E k \in 1..Min(MaxChunk, Len(netbuf)) :
        /\ netbuf' = SubSeq(netbuf, k + 1, Len(netbuf))
        /\ \/ /\ sink' = sink \o SubSeq(netbuf, 1, k)
              /\ UNCHANGED <<oc, spc, serverErr>>
           \/ /\ sinkKind = "faulty"
              /\ \E j \in 0..(k - 1) : sink' = sink \o SubSeq(netbuf, 1, j)
              /\ oc' = Outcome("sinkWrite", FALSE)
              /\ SrvReturn(Wrap("error copying data from server connection", OsErr("sink")))
    /\ UNCHANGED <<envVars, expired, log, raVars, tpc, tret, rem, sent, listener,
                   cconn, sconn, backlog, agVars>>

\* io.Copy(w, conn) reads EOF: the client closed and everything was read.
S_CopyEOF ==
    /\ spc = "copy" /\ ~CtxDone /\ netbuf = <<>> /\ cconn = "closed"
    /\ oc' = Outcome("sread", TRUE)
    /\ SrvReturn(Nil)
    /\ UNCHANGED <<envVars, expired, log, raVars, tcpVars, sink, agVars>>

\* A Read of io.Copy(w, conn) fails: the read deadline passed, or the
\* connection broke.
S_CopyReadErr ==
    /\ spc = "copy"
    /\ oc' = Outcome("sread", FALSE)
    /\ SrvReturn(Wrap("error copying data from server connection",
                      OsErr(IF CtxDone THEN "timeout" ELSE "read")))
    /\ UNCHANGED <<envVars, expired, log, raVars, tcpVars, sink, agVars>>

Program ==
    \/ CtxExpire
    \/ RA_UserCurrent \/ RA_CmdStart \/ RA_CmdWait \/ RA_AbsDir \/ RA_Create
    \/ RA_Modify \/ RA_Close \/ RA_Delete \/ RA_TransmitReturn
    \/ T_Listen \/ T_SetDeadline \/ T_Dial \/ T_ClientWrite \/ T_CopyDone
    \/ T_ClientClose \/ T_Wait \/ T_Return
    \/ S_Accept \/ S_SetReadDeadline \/ S_Copy \/ S_CopyEOF \/ S_CopyReadErr

(* -------------------------- ActivityGenerator ------------------------- *)
AgCall(op, err) == [NoCall EXCEPT !.op = op, !.err = err, !.mark = Len(log)]

Programs == {"true", "false", "does not exist", "no-exec"}

\* cmd.Start(): the executable must exist and be executable, and ctx must
\* not be done.
StartErr(prog) ==
    IF CtxDone THEN OsErr("deadline exceeded")
    ELSE IF prog = "does not exist" THEN OsErr("ErrNotFound")
    ELSE IF prog = "no-exec" THEN OsErr("ErrPermission")
    ELSE Nil

\* How a started program ends: by itself, or killed when ctx's deadline passes.
Exits(prog) ==
    {IF prog = "true" THEN "exit0" ELSE "exitNonZero"} \cup (IF dlOk THEN {"killed"} ELSE {})

\* ActivityGenerator.RunProcess
AG_RunProcess ==
    /\ mode = "AG" /\ agCalls < MaxCalls
    /\ \E prog \in Programs :
        LET serr == StartErr(prog)
        IN  /\ log' = log \o errLog(BaseFields, serr, "process start")
            /\ IF serr # Nil
               THEN /\ agLast' = [AgCall("RunProcess", Wrap("error starting command", serr))
                                    EXCEPT !.path = prog]
                    /\ expired' = expired
               ELSE \E st \in Exits(prog) :
                      LET werr == WaitErr(st)
                      IN  /\ agLast' = [AgCall("RunProcess",
                                               IF werr # Nil
                                               THEN Wrap("error running command", werr)
                                               ELSE Nil)
                                          EXCEPT !.path = prog, !.started = TRUE, !.wait = st]
                          /\ expired' = (expired \/ st = "killed")
    /\ agCalls' = agCalls + 1
    /\ UNCHANGED <<envVars, oc, raVars, tcpVars, srvVars, fs, agOpen>>

AgFileEntry(activity, path) ==
    WithFields(BaseFields, ("file activity" :> activity) @@ ("file path" :> path))

\* ActivityGenerator.CreateFile
AG_CreateFile ==
    /\ mode = "AG" /\ agCalls < MaxCalls
    /\ \E path \in Paths, absOk \in BOOLEAN, ok \in BOOLEAN :
        IF ~absOk
        THEN /\ agLast' = [AgCall("CreateFile",
                                  Wrap("unable to get absolute path", OsErr("getwd")))
                             EXCEPT !.path = path]
             /\ UNCHANGED <<log, fs, agOpen>>
        ELSE LET err == IF ok THEN Nil ELSE OsErr("create")
             IN  /\ log' = log \o errLog(AgFileEntry("create", path), err, "create file")
                 /\ agLast' = [AgCall("CreateFile",
                                      IF err # Nil THEN Wrap("unable to create file", err)
                                      ELSE Nil)
                                 EXCEPT !.path = path]
                 /\ fs' = IF ok THEN [fs EXCEPT ![path] = [exists |-> TRUE, size |-> 0]] ELSE fs
                 /\ agOpen' = IF ok THEN agOpen \cup {path} ELSE agOpen
    /\ agCalls' = agCalls + 1
    /\ UNCHANGED <<envVars, expired, oc, raVars, tcpVars, srvVars>>

\* ActivityGenerator.ModifyFile; handle "nil" is the nil *os.File.
AG_ModifyFile ==
    /\ mode = "AG" /\ agCalls < MaxCalls
    /\ \E handle \in agOpen \cup {"nil"}, n \in 0..MaxLen,
          absOk \in BOOLEAN, dlErr \in BOOLEAN, ok \in BOOLEAN :
        LET call(err) == [AgCall("ModifyFile", err) EXCEPT !.path = handle]
        IN  IF handle = "nil"
            THEN /\ agLast' = call(New("error attempting to modify nil file"))
                 /\ UNCHANGED <<log, fs>>
            ELSE IF ~absOk
            THEN /\ agLast' = call(Wrap("unable to get absolute path", OsErr("getwd")))
                 /\ UNCHANGED <<log, fs>>
            ELSE IF dlOk /\ dlErr
            THEN /\ agLast' = call(Wrap("unable to set write deadline", OsErr("setdeadline")))
                 /\ UNCHANGED <<log, fs>>
            ELSE LET err == IF ok THEN Nil ELSE OsErr("write")
                 IN  /\ log' = log \o errLog(AgFileEntry("modify", handle), err, "modify file")
                     /\ agLast' = [call(IF err # Nil THEN New("error attempting to modify file")
                                        ELSE Nil)
                                     EXCEPT !.sent = IF ok THEN n ELSE 0]
                     /\ fs' = IF ok /\ fs[handle].exists
                              THEN [fs EXCEPT ![handle].size = @ + n] ELSE fs
    /\ agCalls' = agCalls + 1
    /\ UNCHANGED <<envVars, expired, oc, raVars, tcpVars, srvVars, agOpen>>

AG_DeleteFile_NoWrap ==
    /\ mode = "AG" /\ agCalls < MaxCalls
    /\ \E path \in Paths, absOk \in BOOLEAN, ok \in BOOLEAN :
        IF ~absOk
        THEN /\ agLast' = [AgCall("DeleteFile",
                                  Wrap("unable to get absolute path", OsErr("getwd")))
                             EXCEPT !.path = path]
             /\ UNCHANGED <<log, fs>>
        ELSE LET err == IF ~fs[path].exists THEN OsErr("ErrNotExist")
                        ELSE IF ok THEN Nil ELSE OsErr("remove")
             IN  /\ log' = log \o errLog(AgFileEntry("delete", path), err, "delete file")
                 /\ agLast' = [AgCall("DeleteFile",
                                      IF err # Nil
                                      THEN New("error attempting to delete file")
                                      ELSE Nil)
                                 EXCEPT !.path = path]
                 /\ fs' = IF err = Nil THEN [fs EXCEPT ![path] = [exists |-> FALSE, size |-> 0]]
                          ELSE fs
    /\ agCalls' = agCalls + 1
    /\ UNCHANGED <<envVars, expired, oc, raVars, tcpVars, srvVars, agOpen>>

\* ActivityGenerator.DeleteFile
AG_DeleteFile ==
    /\ mode = "AG" /\ agCalls < MaxCalls
    /\ \E path \in Paths, absOk \in BOOLEAN, ok \in BOOLEAN :
        IF ~absOk
        THEN /\ agLast' = [AgCall("DeleteFile",
                                  Wrap("unable to get absolute path", OsErr("getwd")))
                             EXCEPT !.path = path]
             /\ UNCHANGED <<log, fs>>
        ELSE LET err == IF ~fs[path].exists THEN OsErr("ErrNotExist")
                        ELSE IF ok THEN Nil ELSE OsErr("remove")
             IN  /\ log' = log \o errLog(AgFileEntry("delete", path), err, "delete file")
                 /\ agLast' = [AgCall("DeleteFile",
                                      IF err # Nil
                                      THEN Wrap("error attempting to delete file", err)
                                      ELSE Nil)
                                 EXCEPT !.path = path]
                 /\ fs' = IF err = Nil THEN [fs EXCEPT ![path] = [exists |-> FALSE, size |-> 0]]
                          ELSE fs
    /\ agCalls' = agCalls + 1
    /\ UNCHANGED <<envVars, expired, oc, raVars, tcpVars, srvVars, agOpen>>

Addrs == {"listening", "refused"}

AG_ConnectAndTransmit_LogsDialError ==
    /\ mode = "AG" /\ agCalls < MaxCalls
    /\ \E addr \in Addrs, n \in -1..MaxLen, k \in 0..MaxLen,
          ok \in BOOLEAN, closeOk \in BOOLEAN :
        LET call(err) == [AgCall("ConnectAndTransmit", err) EXCEPT !.path = addr]
            entry(m) == WithField(WithFields(BaseFields,
                                    ("destination address" :> "127.0.0.1:40000") @@
                                    ("source address" :> "127.0.0.1:50000") @@
                                    ("protocol" :> "tcp")),
                                  "data sent (bytes)", m)
        IN  IF n = -1
            THEN /\ agLast' = call(New("invalid nil payload io.Reader"))
                 /\ log' = log
            ELSE IF addr = "refused" \/ CtxDone
            THEN /\ agLast' = call(Wrap("unable to connect to address",
                                        OsErr(IF CtxDone THEN "deadline exceeded"
                                              ELSE "connection refused")))
                 /\ log' = log \o errLog(entry(0), OsErr("dial"), "data transmission")
            ELSE /\ ok => k = n
                 /\ ~ok => k < n
                 /\ LET err == IF ok THEN Nil ELSE OsErr("write")
                    IN  /\ log' = log \o errLog(entry(k), err, "data transmission")
                                \o (IF closeOk THEN <<>>
                                    ELSE <<Rec(WithError(BaseFields, OsErr("close")), "error",
                                               "close client network connection")>>)
                        /\ agLast' = [call(IF err # Nil
                                           THEN Wrap("error transmitting data", err) ELSE Nil)
                                        EXCEPT !.conn = "closed", !.sent = k]
    /\ agCalls' = agCalls + 1
    /\ UNCHANGED <<envVars, expired, oc, raVars, tcpVars, srvVars, fs, agOpen>>

\* ActivityGenerator.ConnectAndTransmit; n = -1 is the nil payload reader.
AG_ConnectAndTransmit ==
    /\ mode = "AG" /\ agCalls < MaxCalls
    /\ \E addr \in Addrs, n \in -1..MaxLen, k \in 0..MaxLen,
          ok \in BOOLEAN, closeOk \in BOOLEAN :
        LET call(err) == [AgCall("ConnectAndTransmit", err) EXCEPT !.path = addr]
            entry(m) == WithField(WithFields(BaseFields,
                                    ("destination address" :> "127.0.0.1:40000") @@
                                    ("source address" :> "127.0.0.1:50000") @@
                                    ("protocol" :> "tcp")),
                                  "data sent (bytes)", m)
        IN  IF n = -1
            THEN /\ agLast' = call(New("invalid nil payload io.Reader"))
                 /\ log' = log
            ELSE IF addr = "refused" \/ CtxDone
            THEN /\ agLast' = call(Wrap("unable to connect to address",
                                        OsErr(IF CtxDone THEN "deadline exceeded"
                                              ELSE "connection refused")))
                 /\ log' = log
            ELSE /\ ok => k = n
                 /\ ~ok => k < n
                 /\ LET err == IF ok THEN Nil ELSE OsErr("write")
                    IN  /\ log' = log \o errLog(entry(k), err, "data transmission")
                                \o (IF closeOk THEN <<>>
                                    ELSE <<Rec(WithError(BaseFields, OsErr("close")), "error",
                                               "close client network connection")>>)
                        /\ agLast' = [call(IF err # Nil
                                           THEN Wrap("error transmitting data", err) ELSE Nil)
                                        EXCEPT !.conn = "closed", !.sent = k]
    /\ agCalls' = agCalls + 1
    /\ UNCHANGED <<envVars, expired, oc, raVars, tcpVars, srvVars, fs, agOpen>>

\* The caller closes a handle it got from CreateFile.
AG_CloseHandle ==
    /\ mode = "AG" /\ agCalls < MaxCalls
    /\ \E path \in agOpen : agOpen' = agOpen \ {path}
    /\ UNCHANGED <<envVars, expired, log, oc, raVars, tcpVars, srvVars, fs, agCalls, agLast>>

Generator ==
    \/ AG_RunProcess \/ AG_CreateFile \/ AG_ModifyFile \/ AG_DeleteFile
    \/ AG_ConnectAndTransmit \/ AG_CloseHandle

Next == Program \/ Generator

Spec == Init /\ [][Next]_vars

\* The steps of the calling goroutine and of the goroutine of g.Go.
Caller ==
    \/ T_Listen \/ T_SetDeadline \/ T_Dial \/ T_ClientWrite \/ T_CopyDone
    \/ T_ClientClose \/ T_Wait \/ T_Return
Server == S_Accept \/ S_SetReadDeadline \/ S_Copy \/ S_CopyEOF \/ S_CopyReadErr

\* The Go scheduler runs every goroutine that can take a step, and the
\* deadline of ctx passes.
FairSpec == Spec /\ WF_vars(CtxExpire) /\ WF_vars(Caller) /\ WF_vars(Server)

(* ============================== properties ============================ *)
\* The state of the orchestrator's state machine at a position of RunActivities.
Stage ==
    CASE rpc = "start" -> "Init"
      [] rpc \in {"cmdStart", "cmdWait"} -> "RunningProcess"
      [] rpc \in {"absDir", "create", "modify", "close", "delete"} -> "ManagingFile"
      [] rpc = "transmit" -> "Transmitting"
      [] rpc = "returned" -> IF ret = Nil THEN "Done" ELSE "Failed"
      [] OTHER -> "idle"

ProcessOps == {"cmdStart", "cmdWait"}
FileOps == {"absDir", "create", "modify", "close", "delete"}
CallerTcpOps == {"listen", "setDeadline", "dial", "cwrite", "cclose", "lclose"}
ProcessOk == oc["cmdStart"] = "ok" /\ oc["cmdWait"] = "ok"
FileOk == oc["create"] = "ok" /\ oc["modify"] = "ok" /\ oc["delete"] = "ok"
Attempted(ops) == \E op \in ops : oc[op] # "none"

StageEdges ==
    {<<"Init", "RunningProcess">>, <<"RunningProcess", "ManagingFile">>,
     <<"ManagingFile", "Transmitting">>, <<"Transmitting", "Done">>,
     <<"Init", "Failed">>, <<"RunningProcess", "Failed">>,
     <<"ManagingFile", "Failed">>, <<"Transmitting", "Failed">>}

C1_StageInv ==
    mode = "RA" =>
        /\ (Stage = "ManagingFile" \/ Attempted(FileOps)) => ProcessOk
        /\ (Stage = "Transmitting" \/ Attempted(CallerTcpOps)) => ProcessOk /\ FileOk
        /\ Stage = "Done" => ProcessOk /\ FileOk /\ tpc = "returned" /\ tret.err = Nil
        /\ Stage = "Failed" =>
              /\ ~ProcessOk => ~Attempted(FileOps) /\ ~Attempted(CallerTcpOps)
              /\ ~FileOk => ~Attempted(CallerTcpOps)

C1_StageStep ==
    mode = "RA" =>
        /\ Stage' # Stage => <<Stage, Stage'>> \in StageEdges
        /\ Stage \in {"Done", "Failed"} =>
              /\ UNCHANGED <<log, rpc, ret, e, file, tpc, tret, listener>>
              /\ \A op \in ProcessOps \cup FileOps \cup CallerTcpOps : oc'[op] = oc[op]

\* C1: RunActivities moves only along Init -> RunningProcess -> ManagingFile
\* -> Transmitting -> Done, or from a non-terminal state to Failed; the file
\* stage is entered only after the process stage succeeded, the transmit
\* stage only after the file stage returned no error, Done only after all
\* three succeeded; Done and Failed are absorbing, and after a failure no
\* action or log event of a later stage occurs.
C1_StateMachine == []C1_StageInv /\ [][C1_StageStep]_vars

C1_Witness ==
    /\ mode = "RA" /\ Stage = "Failed"
    /\ ProcessOk /\ oc["create"] = "ok" /\ oc["modify"] = "err" /\ oc["delete"] = "ok"

HasEvent(msg, activity) ==
    \E i \in 1..Len(log) :
        /\ log[i].msg = msg
        /\ "file activity" \in DOMAIN log[i].data
        /\ log[i].data["file activity"] = activity

\* C2: once create succeeded, the file closure never completes without a
\* delete attempt and a logged delete event, whether modify and close
\* succeeded or failed.
C2_DeleteAlwaysAttempted ==
    (mode = "RA" /\ oc["create"] = "ok" /\ rpc \in {"transmit", "returned"}) =>
        /\ oc["delete"] # "none"
        /\ HasEvent("delete file", "delete")

C2_Witness ==
    /\ mode = "RA" /\ rpc = "returned"
    /\ oc["modify"] = "err" /\ oc["close"] = "err" /\ oc["delete"] # "none"
    /\ HasEvent("delete file", "delete")

\* C3: the file closure returns the modify error when modify failed (also
\* when delete failed too), the delete error when only delete failed, and
\* nil exactly when both succeeded; a close failure changes nothing, and
\* RunActivities returns that error unchanged.
C3_FirstFailureWins ==
    (mode = "RA" /\ oc["create"] = "ok" /\ rpc \in {"transmit", "returned"}) =>
        /\ oc["modify"] = "err" => e = Wrap("unable to write to string", OsErr("write"))
        /\ (oc["modify"] = "ok" /\ oc["delete"] = "err") =>
               e = Wrap("unable to delete file", OsErr("remove"))
        /\ (e = Nil) <=> (oc["modify"] = "ok" /\ oc["delete"] = "ok")
        /\ (rpc = "returned" /\ e # Nil) => ret = e

C3_Witness ==
    /\ mode = "RA" /\ rpc = "returned"
    /\ oc["modify"] = "err" /\ oc["delete"] = "err" /\ oc["close"] = "err"
    /\ ret = Wrap("unable to write to string", OsErr("write"))

\* C4: when LocalhostTCPConnect has returned after starting the goroutine,
\* the goroutine has terminated.
C4_NoTaskOutlivesCall ==
    (tpc = "returned" /\ Attempted({"dial"})) => spc = "done"

\* C5: when LocalhostTCPConnect has returned, the listener, the dialed
\* connection and the accepted connection are closed (or were never opened).
C5_AllClosedOnReturn ==
    tpc = "returned" => listener # "open" /\ cconn # "open" /\ sconn # "open"

\* C6: whenever LocalhostTCPConnect returns success, the sink holds exactly
\* the payload and the returned count is the payload's length.
C6_ExactDelivery ==
    (tpc = "returned" /\ tret.err = Nil) =>
        sink = payload /\ tret.sent = Len(payload)

C6_Witness ==
    /\ mode = "TCP" /\ tpc = "returned" /\ tret.err = Nil
    /\ Len(payload) >= 2 /\ sink = payload

Events == [i \in 1..Len(log) |-> log[i].msg]
IsPrefix(s, t) == Len(s) <= Len(t) /\ SubSeq(t, 1, Len(s)) = s
AllOk == \A op \in Ops : oc[op] # "err"
HappyEvents ==
    <<"process start", "create file", "modify file", "delete file", "data transmission">>

\* C7: while no OS action has failed, RunActivities has emitted a prefix of
\* process start, create file, modify file, delete file, data transmission,
\* all at info level; when it returns it has emitted all five, the last one
\* with 5 bytes sent, and returns nil.
C7_HappyPathEvents ==
    (mode = "RA" /\ AllOk) =>
        /\ IsPrefix(Events, HappyEvents)
        /\ \A i \in 1..Len(log) : log[i].level = "info"
        /\ rpc = "returned" =>
              /\ ret = Nil
              /\ Events = HappyEvents
              /\ log[Len(log)].data["data sent (bytes)"] = Len(Hello)

C7_Witness ==
    mode = "RA" /\ AllOk /\ rpc = "returned" /\ ret = Nil /\ Len(log) = Len(HappyEvents)

ClientFailed == oc["cwrite"] = "err" \/ oc["cclose"] = "err"
ServerFailed == spc = "done" /\ serverErr # Nil

\* C8: a failure of the client path or of the server path makes the call
\* return an error; when the client write and the server both failed, the
\* client error is returned and the server error is in the log as an
\* error-level record of its own.
C8_BothFailuresSurface ==
    tpc = "returned" =>
        /\ (ClientFailed \/ ServerFailed) => tret.err # Nil
        /\ (oc["cwrite"] = "err" /\ oc["sread"] = "err") =>
              /\ tret.err[1] = "error copying data to client connection"
              /\ \E i \in 1..Len(log) :
                    /\ log[i].level = "error"
                    /\ log[i].data["error"] = serverErr

\* C9: RunProcess returns nil whenever the process started and terminated by
\* itself, whatever its exit status; it returns an error only when the
\* start failed or the wait was cut short by cancellation.
C9_ExitStatusIsNotAFailure ==
    agLast.op = "RunProcess" =>
        /\ (agLast.started /\ agLast.wait \in {"exit0", "exitNonZero"}) => agLast.err = Nil
        /\ agLast.err # Nil => (~agLast.started \/ agLast.wait = "killed")

LoggedSince(mark, lvl) == \E i \in (mark + 1)..Len(log) : log[i].level = lvl

\* C10: every error a driver returns was logged at error level before the
\* return, and every success was logged at info level (a failure to resolve
\* the user, which precedes every driver, is left aside).
C10_EveryFailureLogged ==
    /\ agLast.op # "none" =>
          IF agLast.err # Nil THEN LoggedSince(agLast.mark, "error")
          ELSE LoggedSince(agLast.mark, "info")
    /\ (mode = "TCP" /\ tpc = "returned") =>
          IF tret.err # Nil THEN LoggedSince(0, "error") ELSE LoggedSince(0, "info")
    /\ (mode = "RA" /\ rpc = "returned" /\ oc["userCurrent"] = "ok") =>
          IF ret # Nil THEN LoggedSince(0, "error") ELSE LoggedSince(0, "info")

TxEvents == {i \in 1..Len(log) : log[i].msg = "data transmission"}

\* C11: a call of LocalhostTCPConnect that has returned has emitted exactly
\* one "data transmission" event, at info level when the call returned nil
\* and at error level when it returned an error.
C11_OneTransmissionEvent ==
    tpc = "returned" =>
        /\ Cardinality(TxEvents) = 1
        /\ \A i \in TxEvents : (log[i].level = "info") <=> (tret.err = Nil)

CarriesBase(rec) ==
    \A k \in DOMAIN BaseFields :
        k \in DOMAIN rec.data /\ rec.data[k] = BaseFields[k]

\* C12: every record logged by RunActivities and by the ActivityGenerator
\* methods carries username, process name, process command line and process
\* ID with the values captured at construction, whatever activity fields
\* and error were added to it.
C12_CorrelationFields ==
    mode \in {"RA", "AG"} => \A i \in 1..Len(log) : CarriesBase(log[i])

C12_Witness ==
    /\ mode = "RA"
    /\ \E i, j \in 1..Len(log) :
          /\ log[i].msg = "delete file"
          /\ log[i].data["file activity"] = "delete"
          /\ log[j].msg = "close TCP listener"
          /\ "data sent (bytes)" \in DOMAIN log[j].data
          /\ CarriesBase(log[i]) /\ CarriesBase(log[j])

\* C13: once the deadline of ctx has elapsed, RunActivities enters no
\* further stage (no file is created after it elapsed in the process stage,
\* no listener is bound after it elapsed in the file stage): the only stage
\* change left is to Failed, and then the file handle, the listener and the
\* connections are released.
C13_NoStageAfterDeadline ==
    [][(mode = "RA" /\ CtxDone /\ Stage # "Init" /\ Stage' # Stage) =>
          /\ Stage' = "Failed"
          /\ ~file'.open /\ listener' # "open" /\ cconn' # "open" /\ sconn' # "open"]_vars

HasMsg(msg) == \E i \in 1..Len(log) : log[i].msg = msg

\* C14 as stated: also when os.Create fails, a delete is attempted and its
\* delete event logged before the run ends in Failed.
C14_DeleteAfterCreateFailure ==
    (mode = "RA" /\ rpc = "returned" /\ oc["create"] = "err") =>
        oc["delete"] # "none" /\ HasMsg("delete file")

\* C14, amended: a delete is attempted and logged whenever create succeeded,
\* whether modify succeeded or failed; when create fails the run ends in
\* Failed with the create error, and no modify, close or delete is attempted
\* or logged.
C14_DeleteOnlyAfterCreate ==
    (mode = "RA" /\ rpc = "returned" /\ oc["create"] # "none") =>
        IF oc["create"] = "err"
        THEN /\ Stage = "Failed"
             /\ ret = Wrap("unable to create file", OsErr("create"))
             /\ oc["modify"] = "none" /\ oc["close"] = "none" /\ oc["delete"] = "none"
             /\ ~HasMsg("modify file") /\ ~HasMsg("delete file")
             /\ log[Len(log)].msg = "create file" /\ log[Len(log)].level = "error"
        ELSE oc["modify"] # "none" /\ oc["delete"] # "none" /\ HasMsg("delete file")

C14_Witness ==
    /\ mode = "RA" /\ rpc = "returned" /\ oc["create"] = "err"
    /\ log[Len(log)].msg = "create file" /\ log[Len(log)].level = "error"

\* A step that is a call of the ActivityGenerator method op.
AgStep(op) == agCalls' = agCalls + 1 /\ agLast'.op = op
LastRec(l) == l[Len(l)]

\* C15: every call of ModifyFile emits exactly one "modify file" event, at
\* info level on success and at error level on failure, also when the handle
\* is nil or the write deadline cannot be set; a call with a nil handle
\* returns an error and changes no file.
C15_ModifyAlwaysLogged ==
    [][AgStep("ModifyFile") =>
          /\ Len(log') = Len(log) + 1
          /\ LastRec(log').msg = "modify file"
          /\ (LastRec(log').level = "info") <=> (agLast'.err = Nil)
          /\ agLast'.path = "nil" => (agLast'.err # Nil /\ fs' = fs)]_vars

NilPayload(err) == err = New("invalid nil payload io.Reader")

AbsFailed(err) == err # Nil /\ err[1] = "unable to get absolute path"

C18_AlwaysReturns == (mode = "TCP" /\ dlOk) => <>(tpc = "returned")

FileActions == <<"create", "modify", "close", "delete">>
FileMsgs == <<"create file", "modify file", "close file", "delete file">>
MsgAt(msg) == {i \in 1..Len(log) : log[i].msg = msg}

\* The file actions taken so far are a prefix of create, modify, close,
\* delete; their log events are written in that order, each at most once;
\* the handle is open only between create and close.
C19_Order ==
    mode = "RA" =>
        /\ \A a \in 2..4 : oc[FileActions[a]] # "none" =>
              (oc[FileActions[a - 1]] # "none" /\ oc["create"] = "ok")
        /\ \A a \in 1..4 : Cardinality(MsgAt(FileMsgs[a])) <= 1
        /\ \A a, b \in 1..4 : a < b =>
              \A i \in MsgAt(FileMsgs[a]), j \in MsgAt(FileMsgs[b]) : i < j
        /\ \A a \in {1, 2, 4} :
              (oc[FileActions[a]] # "none") <=> (MsgAt(FileMsgs[a]) # {})
        /\ file.open <=> (oc["create"] = "ok" /\ oc["close"] = "none")

\* A file action is taken once; the file is written only through the open
\* handle and removed only when the handle is closed.
C19_Step ==
    mode = "RA" =>
        /\ \A a \in 1..4 : oc[FileActions[a]] # "none" =>
              oc'[FileActions[a]] = oc[FileActions[a]]
        /\ (file'.size # file.size /\ file.exists) =>
              (file.open /\ oc["close"] = "none")
        /\ (file.exists /\ ~file'.exists) => (~file.open /\ oc["close"] # "none")
        /\ ~file.open /\ file'.open => oc["create"] = "none"

\* C19: in a run the file actions happen in the order create, modify,
\* close, delete, each at most once, and their log events in the same order;
\* the handle is never written after it was closed and the file is never
\* deleted while the handle is open.
C19_FileLifecycleOrder == []C19_Order /\ [][C19_Step]_vars

C19_Witness ==
    /\ mode = "RA" /\ ~file.exists /\ ~file.open /\ file.size = AppendLen
    /\ \A a \in 1..4 : oc[FileActions[a]] = "ok"
    /\ \E i, j, k \in 1..Len(log) :
          /\ i < j /\ j < k
          /\ log[i].msg = "create file" /\ log[j].msg = "modify file"
          /\ log[k].msg = "delete file"

\* C20: no stage overlaps the next: the process has ended before the file is
\* created; whenever the transmit stage is reached the handle is closed and
\* the delete attempt is over before the listener is bound; the two
\* concurrent tasks exist only inside the transmit stage.
C20_NoStageOverlap ==
    mode = "RA" =>
        /\ oc["create"] # "none" => oc["cmdWait"] = "ok"
        /\ oc["listen"] # "none" => (~file.open /\ oc["delete"] # "none")
        /\ spc \notin {"idle", "done"} => Stage = "Transmitting"

====
